---- MODULE Spec2Model ----
(***************************************************************************)
(* State-machine model of LyapunovScheduler (Simu5G scheduling module).    *)
(*                                                                         *)
(* Two versions of the scheduler exist in the repository: the one in       *)
(* src/unnamed/part_000 (LyapunovScheduler.h/.cc) and the "final" one      *)
(* printed in src/README.md.  Spec models the former, SpecReadme the       *)
(* latter.  One pass is prepareSchedule followed by commitSchedule; the    *)
(* gathering loop and the drain loop are unrolled one iteration per step   *)
(* so that the order of the requestGrant calls is visible.                 *)
(*                                                                         *)
(* Further specifications exercise parts of part_000 on their own:         *)
(* SpecWeight and SpecWeightReadme apply computeQosWeightFromContext of    *)
(* the two versions to contexts that differ in the priority level only;    *)
(* SpecRescore runs the gathering step twice in one slot; SpecLive is Spec *)
(* with no limit on the number of requestGrant calls, the loop body in two *)
(* steps, and the fairness of a pass that runs to completion; SpecRecommit *)
(* adds a second commitSchedule; SpecPriority and SpecTie run the pass on  *)
(* flows that differ in priority level and on flows with long queues;      *)
(* SpecBudget applies the weight function to contexts that differ in the   *)
(* delay budget only; SpecStateless keeps what one earlier slot was given  *)
(* and did, to compare a later slot with it.                               *)
(*                                                                         *)
(* Scores are C++ doubles.  They are modelled as exact numbers of the form *)
(* (n/d) * 10^e plus a perturbation of p * scoreEpsilon_ / PertSteps, and  *)
(* compared exactly.  Of floating-point rounding only the loss of the      *)
(* perturbation in a score of 2 * 10^10 or more is modelled.  The QoS      *)
(* contexts have priorityLevel >= 0 (part_000 divides by priorityLevel + 1) *)
(* and the unsigned sums of blocks and bytes stay far below 2^32.          *)
(***************************************************************************)
EXTENDS Bags, FiniteSets, Integers, Sequences, TLC

(* ------------------------------ bounds -------------------------------- *)
\* number of connection identifiers (MacCid) that exist
NumCids == 2
\* largest queue occupancy (bytes) a BSR virtual buffer reports
MaxBacklog == 1
\* largest byte count one requestGrant call returns
MaxGrant == 1
\* most requestGrant calls the executor answers in one pass
MaxCalls == 2
\* the perturbation uniform(-eps, eps) is sampled at p * eps / PertSteps,
\* p in -PertSteps .. PertSteps - 1 (the interval is half open)
PertSteps == 1
\* the priority levels the weight function is tried with are 0 .. MaxPriorityLevel
MaxPriorityLevel == 10
\* most applications of the weight function to one set of other attributes
MaxWeighings == 2

(* ----------------------------- constants ------------------------------ *)
\* scoreEpsilon_ = 1e-6 = 10^(-EpsExp)
EpsExp == 6

Cids == 1..NumCids
End == 0
NoCtx == [none |-> TRUE]
Unread == [unread |-> TRUE]

Min(S) == CHOOSE x \in S : \A y \in S : x <= y

(* ------------------- exact arithmetic on score values ----------------- *)
\* 10^k for k in 0..9, the powers of ten a 32-bit integer can hold
Pow10(k) == << 1, 10, 100, 1000, 10000, 100000, 1000000, 10000000, 100000000, 1000000000 >>[k + 1]

\* ceil(y / 10^k) for an integer y (\div is the floor division); |y| < 2^31 < 10^10,
\* so from k = 10 on the quotient is 1 for a positive y and 0 otherwise
CeilDivPow10(y, k) ==
    IF k > 9 THEN (IF y > 0 THEN 1 ELSE 0) ELSE ((y - 1) \div Pow10(k)) + 1

\* x * 10^k < y, without forming x * 10^k
ShiftLess(x, k, y) == x < CeilDivPow10(y, k)

\* a score value is [n, d, e] and stands for (n / d) * 10^e, d > 0, e >= 0
Val(n, d, e) == [n |-> n, d |-> d, e |-> e]
Zero == Val(0, 1, 0)

\* a + pa * eps / PertSteps < b + pb * eps / PertSteps
PertLess(a, pa, b, pb) ==
    LET X  == a.n * b.d * PertSteps
        Y  == b.n * a.d * PertSteps
        Z  == (pb - pa) * a.d * b.d
        mn == IF a.e < b.e THEN a.e ELSE b.e
        c  == CeilDivPow10(Z, mn + EpsExp)
    IN  IF a.e >= b.e
        THEN ShiftLess(X, a.e - b.e, Y + c)
        ELSE ~ ShiftLess(Y, b.e - a.e, X - c + 1)

\* the same number with the powers of ten moved from n to e
RECURSIVE Norm10(_)
Norm10(a) ==
    IF a.n # 0 /\ a.n % 10 = 0 THEN Norm10([n |-> a.n \div 10, d |-> a.d, e |-> a.e + 1]) ELSE a

ValMul(a, b) == Norm10([n |-> a.n * b.n, d |-> a.d * b.d, e |-> a.e + b.e])

\* a^k for a natural exponent k
RECURSIVE ValPow(_, _)
ValPow(a, k) == IF k = 0 THEN [n |-> 1, d |-> 1, e |-> 0] ELSE ValMul(a, ValPow(a, k - 1))

RECURSIVE Pow2(_)
Pow2(k) == IF k = 0 THEN 1 ELSE 2 * Pow2(k - 1)

\* a < b for unperturbed score values
ValLess(a, b) == PertLess(a, 0, b, 0)

IsZero(a) == a.n = 0
IsPositive(a) == a.n > 0

(* ------------------------------ inputs -------------------------------- *)
\* QfiContext records the QoS directory can hold (QfiContextManager)
Contexts ==
    { [qfi |-> 1, fiveQi |-> 9, isGbr |-> FALSE, priorityLevel |-> 4, delayBudgetMs |-> 300] }

\* what getQfiForCid returns when no QFI is registered for the CID
NoQfi == 0 - 1

\* what the directory answers for a flow: the QFI registered for its CID and
\* the context stored for that QFI, if any
Lookups(contexts) ==
    { [qfi |-> NoQfi, ctx |-> NoCtx] }
    \cup { [qfi |-> c.qfi, ctx |-> NoCtx] : c \in contexts }
    \cup { [qfi |-> c.qfi, ctx |-> c] : c \in contexts }

\* what computeTxParams / readAvailableRbs / computeBytesOnNRbs report for a
\* flow: one <<blocks, bytes>> pair for every (antenna, band) pair
Reports ==
    { << <<0, 0>> >>, << <<1, 0>> >>, << <<1, 1>>, <<1, 2>> >> }

\* the perturbation samples, in units of scoreEpsilon_ / PertSteps
Perts == (0 - PertSteps) .. (PertSteps - 1)

\* everything one iteration of the gathering loop reads about a flow.  A
\* field the code does not read on the path taken keeps a fixed value.
\* backlog 0 also stands for a missing or null entry of the BSR map.
Skipped(resolved, dirOk, hasChannel, cwFree) ==
    [resolved |-> resolved, dirOk |-> dirOk, hasChannel |-> hasChannel,
     cwFree |-> cwFree, report |-> << >>, backlog |-> 0, qfi |-> NoQfi, ctx |-> NoCtx]

FlowInputs ==
    { Skipped(FALSE, TRUE, TRUE, TRUE), Skipped(TRUE, FALSE, TRUE, TRUE),
      Skipped(TRUE, TRUE, FALSE, TRUE), Skipped(TRUE, TRUE, TRUE, FALSE) }
    \cup
    { [resolved |-> TRUE, dirOk |-> TRUE, hasChannel |-> TRUE, cwFree |-> TRUE,
       report |-> r, backlog |-> b, qfi |-> l.qfi, ctx |-> l.ctx] :
         r \in Reports, b \in 0..MaxBacklog, l \in Lookups(Contexts) }

(* ------------------------------- state -------------------------------- *)
VARIABLES
    activeConnectionSet,         \* *activeConnectionSet_, owned by the framework
    activeConnectionTempSet,     \* activeConnectionTempSet_
    carrierActiveConnectionSet,  \* carrierActiveConnectionSet_
    grantedBytes,                \* grantedBytes_ : map MacCid -> unsigned int
    score,                       \* the priority queue of prepareSchedule (a bag)
    it,                          \* iterator of the gathering loop, End past the last
    pc,                          \* "new" before the constructor, "aborted" when it threw,
                                 \* "idle", "gather", "drain", "returned", "committed";
                                 \* "recommitted" after a second commitSchedule;
                                 \* "granted" between requestGrant and the tests of its
                                 \* answer, where the loop body is taken in two steps
    inputs,                      \* what the pass has read for each flow so far
    requested,                   \* the requestGrant calls of the pass, in order
    passStart,                   \* *activeConnectionSet_ when prepareSchedule began
    abandoned,                   \* the pass returned before the gathering step
    qfiContextMgr,               \* qfiContextMgr_ : Null or Instance
    contextLoaded,               \* contextLoaded_
    ctxArg,                      \* the QfiContext the weight function is applied to
    weighed,                     \* the weights returned for it, one per priority level tried
    answer,                      \* what requestGrant returned, until the loop body has used it
    firstPass,                   \* what an earlier gathering step of the slot scored
    slotSeen                     \* an earlier slot: what it read and what it did

vars == << activeConnectionSet, activeConnectionTempSet, carrierActiveConnectionSet,
           grantedBytes, score, it, pc, inputs, requested, passStart, abandoned,
           qfiContextMgr, contextLoaded, ctxArg, weighed, answer, firstPass, slotSeen >>

\* the variables the weight function is exercised with
weightVars == << ctxArg, weighed >>

\* the variables prepareSchedule and commitSchedule leave alone
restVars == << qfiContextMgr, contextLoaded, ctxArg, weighed, answer, firstPass, slotSeen >>

\* the state of the scheduling pass
passVars == << activeConnectionSet, activeConnectionTempSet, carrierActiveConnectionSet,
               grantedBytes, score, it, inputs, requested, passStart, abandoned >>

Null == "null"
Instance == "instance"
None == [none |-> TRUE]

(* ------------------------- QoS context directory ---------------------- *)
\* ASSERT(cond) throws when the build compiles assertions in (a debug build)
\* and is empty when it does not (NDEBUG)
AssertFails(assertsOn, cond) == assertsOn /\ ~ cond

\* if (!contextLoaded_)
NeedsLoad(loaded) == ~ loaded

\* loadContextIfNeeded; goes on at `next` unless the assertion throws
loadContextIfNeeded(next) ==
    IF NeedsLoad(contextLoaded)
    THEN \E instance \in {Null, Instance}, assertsOn \in BOOLEAN :
            /\ qfiContextMgr' = instance
            /\ IF AssertFails(assertsOn, instance # Null)
               THEN contextLoaded' = contextLoaded /\ pc' = "aborted"
               ELSE contextLoaded' = TRUE /\ pc' = next
    ELSE /\ UNCHANGED << qfiContextMgr, contextLoaded >>
         /\ pc' = next

\* getQfiContextForCid: `lookup` is what the directory holds for the CID
getQfiContextForCid(lookup) ==
    IF qfiContextMgr = Null THEN NoCtx
    ELSE IF lookup.qfi < 0 THEN NoCtx
    ELSE lookup.ctx

\* the directory is asked only when there is one
DirectoryRead(inp) == qfiContextMgr = Null => (inp.qfi = NoQfi /\ inp.ctx = NoCtx)

(* ------------------------- QoS weight (part_000) ---------------------- *)
\* weight = (10 - fiveQi + 1) * [2 if GBR] * 10 / (priorityLevel + 1) * bonus,
\* bonus 5, 3, 1.5 or 1 by delay budget; as an exact fraction
computeQosWeightFromContext(ctx) ==
    LET g  == IF ctx.isGbr THEN 2 ELSE 1
        bn == IF ctx.delayBudgetMs <= 10 THEN 5
              ELSE IF ctx.delayBudgetMs <= 50 THEN 3
              ELSE IF ctx.delayBudgetMs <= 100 THEN 3 ELSE 1
        bd == IF ctx.delayBudgetMs > 50 /\ ctx.delayBudgetMs <= 100 THEN 2 ELSE 1
    IN  Val((10 - ctx.fiveQi + 1) * g * 10 * bn, (ctx.priorityLevel + 1) * bd, 0)

\* a neutral weight that is not neutral
DoubleWeight == Val(2, 1, 0)

\* the weight of a flow without a context: 1.0
NeutralWeight == Val(1, 1, 0)

\* qosWeight = ctx ? computeQosWeightFromContext(*ctx) : 1.0
QosWeight(ctx) == IF ctx = NoCtx THEN NeutralWeight ELSE computeQosWeightFromContext(ctx)

(* ------------------------- map and set helpers ------------------------ *)
EmptyMap == << >>
Get(m, k) == IF k \in DOMAIN m THEN m[k] ELSE 0
Put(m, k, v) == [x \in (DOMAIN m) \cup {k} |-> IF x = k THEN v ELSE m[x]]

\* begin() of a std::set, and the iterator after position c
Begin(S) == IF S = {} THEN End ELSE Min(S)
Succ(S, c) == Begin({x \in S : x > c})

RECURSIVE SumBlocks(_)
SumBlocks(r) == IF r = << >> THEN 0 ELSE Head(r)[1] + SumBlocks(Tail(r))
RECURSIVE SumBytes(_)
SumBytes(r) == IF r = << >> THEN 0 ELSE Head(r)[2] + SumBytes(Tail(r))

Entry(cid, s, p) == [cid |-> cid, s |-> s, p |-> p]

\* |a| for a score value
AbsVal(a) == [a EXCEPT !.n = IF a.n < 0 THEN 0 - a.n ELSE a.n]

\* doubles from 2 * 10^10 on are at least 2^-18 apart, more than twice
\* scoreEpsilon_: s + u rounds to s for every |u| <= scoreEpsilon_
AbsorbBound == Val(2, 1, 10)

\* a sum that is always exact
NeverAbsorbed(s) == FALSE

\* s += uniform(...) leaves the double s as it is: |s| >= AbsorbBound (a value
\* with e = 0 is a 32-bit integer over d >= 1 and is below the bound)
Absorbed(s) == s.e > 0 /\ ~ ValLess(AbsVal(s), AbsorbBound)

\* what the addition s += uniform(...) adds to the entry's score, in units of
\* scoreEpsilon_ / PertSteps: nothing when the sample is absorbed; below
\* AbsorbBound the sum is taken as exact
Added(a) == IF Absorbed(a.s) THEN 0 ELSE a.p

\* compare(a, b) == a.second < b.second
compare(a, b) == PertLess(a.s, Added(a), b.s, Added(b))

\* a queue ordered the wrong way round: top() is a least element
TopLeast(q) == { a \in BagToSet(q) : \A b \in BagToSet(q) : ~ compare(b, a) }

\* the elements priority_queue::top() can return: no element is greater
Top(q) == { a \in BagToSet(q) : \A b \in BagToSet(q) : ~ compare(a, b) }

\* a queue that outlives the call: it still holds what an earlier call left
KeptQueue == score

\* the queue prepareSchedule constructs: a local variable, empty
FreshQueue == EmptyBag

Push(q, a) == q (+) SetToBag({a})
\* a pop that removes nothing
NoPop(q, a) == q

Pop(q, a) == q (-) SetToBag({a})

(* ---------------------- score of a flow (part_000) -------------------- *)
\* the sums written with = where the code has +=: the blocks and bytes of the
\* last (antenna, band) pair only, and no test of availableBlocks for the
\* rate of a pair
FlowScoreLastPair(inp) ==
    LET n               == Len(inp.report)
        availableBlocks == IF n = 0 THEN 0 ELSE inp.report[n][1]
        availableBytes  == IF n = 0 THEN 0 ELSE inp.report[n][2]
        w               == QosWeight(getQfiContextForCid(inp))
    IN  IF inp.backlog > 0
        THEN [n |-> inp.backlog * availableBytes * w.n, d |-> availableBlocks * w.d, e |-> 0]
        ELSE Zero

\* s = (availableBlocks > 0 && queueBacklog > 0)
\*       ? queueBacklog * (availableBytes / availableBlocks) * qosWeight : 0.0
FlowScore(inp) ==
    LET availableBlocks == SumBlocks(inp.report)
        availableBytes  == SumBytes(inp.report)
        w               == QosWeight(getQfiContextForCid(inp))
    IN  IF availableBlocks > 0 /\ inp.backlog > 0
        THEN ValMul(ValMul(Val(inp.backlog, 1, 0), Val(availableBytes, availableBlocks, 0)), w)
        ELSE Zero

(* ------------------- decisions of the two loops ----------------------- *)
\* if (nodeId == NODEID_NONE || id == 0)
Unresolvable(inp) == ~ inp.resolved

\* the erase calls left out
KeepUnresolved(S, cid) == S

\* the erase(cid) calls for a flow whose identity cannot be resolved
EraseUnresolved(S, cid) == S \ {cid}

\* the skips of the gathering loop that leave the active sets alone
\* (a D2D direction, no CQI or no bands, every codeword allocated)
TransientSkip(inp) == ~ inp.dirOk \/ ~ inp.hasChannel \/ ~ inp.cwFree

\* the break left out
NeverStopDraining(terminate) == FALSE

\* if (terminate) break;
StopDraining(terminate) == terminate

\* the entry popped whatever the call answers
PopAlways(active, eligible) == TRUE

\* if (!active || !eligible) score.pop();
PopAfterGrant(active, eligible) == ~ active \/ ~ eligible

\* if (!active) { activeConnectionTempSet_.erase(cid); carrierActiveConnectionSet_.erase(cid); }
EraseInactive(S, cid, active) == IF ~ active THEN S \ {cid} ELSE S

\* a commit that merges the working set into the authoritative set
MergedSet(authoritative, working) == authoritative \cup working

\* score.top() in the drain loop of part_000: the front of the heap.  After a
\* call that popped nothing the heap is as it was, and its front is the entry
\* of that call; otherwise it is one of the greatest entries
Front(q, calls) ==
    LET last == calls[Len(calls)]
    IN  IF calls # << >> /\ ~ StopDraining(last.terminate)
                         /\ ~ PopAfterGrant(last.active, last.eligible)
        THEN { Entry(last.cid, last.s, last.p) }
        ELSE Top(q)

\* *activeConnectionSet_ = activeConnectionTempSet_
CommittedSet(authoritative, working) == working

(* ------------------------------ actions ------------------------------- *)
\* the members as their in-class initialisers leave them
InitScheduler ==
    /\ qfiContextMgr = Null
    /\ contextLoaded = FALSE
    /\ weighed = << >>
    /\ answer = None
    /\ firstPass = None
    /\ slotSeen = None
    /\ activeConnectionSet = {}
    /\ activeConnectionTempSet = {}
    /\ carrierActiveConnectionSet = {}
    /\ grantedBytes = EmptyMap
    /\ score = EmptyBag
    /\ it = End
    /\ pc = "new"
    /\ inputs = [c \in Cids |-> Unread]
    /\ requested = << >>
    /\ passStart = {}
    /\ abandoned = FALSE

Init == InitScheduler /\ ctxArg = NoCtx

\* the constructor: LteScheduler(binder), then loadContextIfNeeded()
LyapunovScheduler ==
    /\ pc = "new"
    /\ loadContextIfNeeded("idle")
    /\ UNCHANGED << passVars, ctxArg, weighed, answer, firstPass, slotSeen >>

\* a call of loadContextIfNeeded on the constructed scheduler
LoadAgain ==
    /\ pc \in {"idle", "committed"}
    /\ loadContextIfNeeded(pc)
    /\ UNCHANGED << passVars, ctxArg, weighed, answer, firstPass, slotSeen >>

\* between two passes the framework adds and removes connections, and before
\* each pass it rebuilds the carrier set from the active connections
FrameworkUpdate ==
    /\ pc \in {"idle", "committed", "recommitted"}
    /\ \E a \in SUBSET Cids :
          /\ activeConnectionSet' = a
          /\ \E c \in SUBSET a : carrierActiveConnectionSet' = c
    /\ pc' = "idle"
    /\ inputs' = [c \in Cids |-> Unread]
    /\ requested' = << >>
    /\ passStart' = {}
    /\ abandoned' = FALSE
    /\ UNCHANGED << activeConnectionTempSet, grantedBytes, score, it >>
    /\ UNCHANGED restVars

\* the map of an earlier pass left as it is
KeptGrants == grantedBytes

\* grantedBytes_.clear()
ClearedGrants == EmptyMap

PcAfterGather(nit, q) ==
    IF nit # End THEN "gather" ELSE IF q = EmptyBag THEN "returned" ELSE "drain"

\* prepareSchedule, up to the first iteration of the gathering loop
PrepareBegin ==
    /\ pc = "idle"
    /\ passStart' = activeConnectionSet
    /\ inputs' = [c \in Cids |-> Unread]
    /\ requested' = << >>
    /\ \E virtualBuffers \in BOOLEAN :
          IF ~ virtualBuffers
          THEN /\ abandoned' = TRUE
               /\ pc' = "returned"
               /\ UNCHANGED << activeConnectionSet, activeConnectionTempSet,
                               carrierActiveConnectionSet, grantedBytes, score, it >>
          ELSE /\ abandoned' = FALSE
               /\ grantedBytes' = ClearedGrants
               /\ activeConnectionTempSet' = activeConnectionSet
               /\ score' = FreshQueue
               /\ it' = Begin(carrierActiveConnectionSet)
               /\ pc' = PcAfterGather(it', score')
               /\ UNCHANGED << activeConnectionSet, carrierActiveConnectionSet >>
    /\ UNCHANGED restVars

\* one iteration of the gathering loop, for the flow the iterator is at, with
\* what it reads drawn from flowInputs
GatherStepOn(flowInputs) ==
    /\ pc = "gather"
    /\ it # End
    /\ \E inp \in flowInputs :
          /\ DirectoryRead(inp)
          /\ inputs[it] \in {Unread, inp}
          /\ inputs' = [inputs EXCEPT ![it] = inp]
          /\ grantedBytes' = Put(grantedBytes, it, 0)
          /\ IF Unresolvable(inp)
             THEN /\ activeConnectionSet' = EraseUnresolved(activeConnectionSet, it)
                  /\ activeConnectionTempSet' = EraseUnresolved(activeConnectionTempSet, it)
                  /\ carrierActiveConnectionSet' = EraseUnresolved(carrierActiveConnectionSet, it)
                  /\ score' = score
                  \* the erase invalidated the iterator of the range-for, and
                  \* incrementing it is undefined: the loop can go on at any
                  \* element left in the set or end (a crash is a behaviour
                  \* that stops here)
                  /\ it' \in carrierActiveConnectionSet' \cup {End}
             ELSE /\ UNCHANGED << activeConnectionSet, activeConnectionTempSet,
                                  carrierActiveConnectionSet >>
                  /\ it' = Succ(carrierActiveConnectionSet, it)
                  /\ IF TransientSkip(inp)
                     THEN score' = score
                     ELSE \E p \in Perts :
                             score' = Push(score, Entry(it, FlowScore(inp), p))
          /\ pc' = PcAfterGather(it', score')
    /\ UNCHANGED << requested, passStart, abandoned >>
    /\ UNCHANGED restVars

GatherStep == GatherStepOn(FlowInputs)

\* one iteration of the drain loop
DrainStep ==
    /\ pc = "drain"
    /\ \E current \in Front(score, requested), granted \in 0..MaxGrant,
          terminate \in BOOLEAN, active \in BOOLEAN, eligible \in BOOLEAN :
          LET cid == current.cid
              q   == IF PopAfterGrant(active, eligible) THEN Pop(score, current) ELSE score
          IN  /\ (~ terminate /\ active /\ eligible) => Len(requested) + 1 < MaxCalls
              /\ requested' = Append(requested,
                                 [cid |-> cid, s |-> current.s, p |-> current.p,
                                  granted |-> granted, terminate |-> terminate,
                                  active |-> active, eligible |-> eligible])
              /\ grantedBytes' = Put(grantedBytes, cid, Get(grantedBytes, cid) + granted)
              /\ IF StopDraining(terminate)
                 THEN /\ score' = score
                      /\ pc' = "returned"
                      /\ UNCHANGED << activeConnectionTempSet, carrierActiveConnectionSet >>
                 ELSE /\ score' = q
                      /\ pc' = IF q = EmptyBag THEN "returned" ELSE "drain"
                      /\ activeConnectionTempSet' = EraseInactive(activeConnectionTempSet, cid, active)
                      /\ carrierActiveConnectionSet' =
                            EraseInactive(carrierActiveConnectionSet, cid, active)
    /\ UNCHANGED << activeConnectionSet, it, inputs, passStart, abandoned >>
    /\ UNCHANGED restVars

commitSchedule ==
    /\ pc = "returned"
    /\ activeConnectionSet' = CommittedSet(activeConnectionSet, activeConnectionTempSet)
    /\ pc' = "committed"
    /\ UNCHANGED << activeConnectionTempSet, carrierActiveConnectionSet, grantedBytes,
                    score, it, inputs, requested, passStart, abandoned >>
    /\ UNCHANGED restVars

Next ==
    \/ LyapunovScheduler
    \/ LoadAgain
    \/ FrameworkUpdate
    \/ PrepareBegin
    \/ GatherStep
    \/ DrainStep
    \/ commitSchedule

Spec == Init /\ [][Next]_vars

(* ===================== the version of src/README.md ==================== *)
\* alpha_ and beta_, the exponents of the score (.ini parameters)
Alpha == 1
Beta == 1
\* score *= 1e12 for a flow of QFI 4: 1e12 = 10^StrictExp
StrictExp == 12
StrictQfi == 4
\* pow(priorityBase, 9 - ctx.priorityLevel), priorityBase = 2.0
PriorityBase == 2
PriorityTop == 9

ContextsReadme ==
    { [qfi |-> 4, fiveQi |-> 82, isGbr |-> FALSE, priorityLevel |-> 9, delayBudgetMs |-> 300],
      [qfi |-> 1, fiveQi |-> 9, isGbr |-> TRUE, priorityLevel |-> 1, delayBudgetMs |-> 5] }

\* queue occupancies the README version is run with: an empty queue, small
\* queues and a very long one
BacklogsReadme == (0..MaxBacklog) \cup {1000000000}

ReportsReadme == Reports

\* the fields are read in the order backlog, channel, rates, context; a
\* field that is not read keeps a fixed value
FlowInputsReadme ==
    { Skipped(FALSE, TRUE, TRUE, TRUE), Skipped(TRUE, TRUE, TRUE, TRUE) }
    \cup
    { [Skipped(TRUE, TRUE, FALSE, TRUE) EXCEPT !.backlog = b] : b \in BacklogsReadme \ {0} }
    \cup
    { [Skipped(TRUE, TRUE, TRUE, TRUE) EXCEPT !.backlog = b, !.report = r] :
         b \in BacklogsReadme \ {0},
         r \in { x \in ReportsReadme : SumBlocks(x) = 0 \/ SumBytes(x) = 0 } }
    \cup
    { [resolved |-> TRUE, dirOk |-> TRUE, hasChannel |-> TRUE, cwFree |-> TRUE,
       report |-> r, backlog |-> b, qfi |-> l.qfi, ctx |-> l.ctx] :
         r \in { x \in ReportsReadme : SumBlocks(x) > 0 /\ SumBytes(x) > 0 },
         b \in BacklogsReadme \ {0}, l \in Lookups(ContextsReadme) }

\* the delay bonus of the other version, without its third step
DelayBonusLinear(ctx) ==
    IF ctx.delayBudgetMs <= 10 THEN 5 ELSE IF ctx.delayBudgetMs <= 50 THEN 3 ELSE 1

\* if (delayBudgetMs <= 10) weight *= 10.0; else if (delayBudgetMs <= 50) weight *= 3.0;
DelayBonusReadme(ctx) ==
    IF ctx.delayBudgetMs <= 10 THEN 10 ELSE IF ctx.delayBudgetMs <= 50 THEN 3 ELSE 1

\* weight = 2^(9 - priorityLevel) * (10 | 3 | 1 by delay budget) * (2 if GBR)
computeQosWeightFromContextReadme(ctx) ==
    LET k     == PriorityTop - ctx.priorityLevel
        base  == IF k >= 0 THEN Val(Pow2(k), 1, 0) ELSE Val(1, Pow2(0 - k), 0)
        delay == DelayBonusReadme(ctx)
        gbr   == IF ctx.isGbr THEN 2 ELSE 1
    IN  ValMul(ValMul(base, Val(delay, 1, 0)), Val(gbr, 1, 0))

QosWeightReadme(ctx) ==
    IF ctx = NoCtx THEN NeutralWeight ELSE computeQosWeightFromContextReadme(ctx)

\* achievableRate = (availableBlocks > 0) ? availableBytes / availableBlocks : 0.0
AchievableRate(report) ==
    IF SumBlocks(report) > 0 THEN Val(SumBytes(report), SumBlocks(report), 0) ELSE Zero

\* if (ctx && ctx->qfi == 4) score *= 1e12
IsStrictPriority(ctx) == ctx # NoCtx /\ ctx.qfi = StrictQfi

\* the bonus assigned (score = 1e12) where the code multiplies
StrictBonusFlat(v, ctx) ==
    IF IsStrictPriority(ctx) THEN Val(1, 1, StrictExp) ELSE v

StrictBonus(v, ctx) ==
    IF IsStrictPriority(ctx) THEN [v EXCEPT !.e = v.e + StrictExp] ELSE v

\* score = pow(backlog, alpha_) * achievableRate * pow(qosWeight, beta_), then the bonus
FlowScoreReadme(inp) ==
    StrictBonus(ValMul(ValMul(ValPow(Val(inp.backlog, 1, 0), Alpha), AchievableRate(inp.report)),
                       ValPow(QosWeightReadme(getQfiContextForCid(inp)), Beta)),
                getQfiContextForCid(inp))

\* the `continue`s of the gathering loop of the README version
SkipReadme(inp) ==
    \/ ~ inp.resolved
    \/ inp.backlog = 0
    \/ ~ inp.hasChannel
    \/ IsZero(AchievableRate(inp.report))

PrepareBeginReadme ==
    /\ pc = "idle"
    /\ passStart' = activeConnectionSet
    /\ inputs' = [c \in Cids |-> Unread]
    /\ requested' = << >>
    /\ abandoned' = FALSE
    /\ grantedBytes' = EmptyMap
    /\ activeConnectionTempSet' = activeConnectionSet
    /\ score' = FreshQueue
    /\ it' = Begin(carrierActiveConnectionSet)
    /\ pc' = PcAfterGather(it', score')
    /\ UNCHANGED << activeConnectionSet, carrierActiveConnectionSet >>
    /\ UNCHANGED restVars

GatherStepReadme ==
    /\ pc = "gather"
    /\ it # End
    /\ \E inp \in FlowInputsReadme :
          /\ DirectoryRead(inp)
          /\ inputs' = [inputs EXCEPT ![it] = inp]
          /\ it' = Succ(carrierActiveConnectionSet, it)
          /\ IF SkipReadme(inp)
             THEN score' = score
             ELSE \E p \in Perts : score' = Push(score, Entry(it, FlowScoreReadme(inp), p))
          /\ pc' = PcAfterGather(it', score')
    /\ UNCHANGED << activeConnectionSet, activeConnectionTempSet, carrierActiveConnectionSet,
                    grantedBytes, requested, passStart, abandoned >>
    /\ UNCHANGED restVars

DrainStepReadme ==
    /\ pc = "drain"
    /\ \E current \in Top(score), granted \in 0..MaxGrant,
          terminate \in BOOLEAN, active \in BOOLEAN, eligible \in BOOLEAN :
          LET cid == current.cid
              q   == Pop(score, current)
          IN  /\ requested' = Append(requested,
                                 [cid |-> cid, s |-> current.s, p |-> current.p,
                                  granted |-> granted, terminate |-> terminate,
                                  active |-> active, eligible |-> eligible])
              /\ grantedBytes' = Put(grantedBytes, cid, Get(grantedBytes, cid) + granted)
              /\ score' = q
              /\ IF StopDraining(terminate)
                 THEN /\ pc' = "returned"
                      /\ UNCHANGED << activeConnectionTempSet, carrierActiveConnectionSet >>
                 ELSE /\ pc' = IF q = EmptyBag THEN "returned" ELSE "drain"
                      /\ activeConnectionTempSet' = EraseInactive(activeConnectionTempSet, cid, active)
                      /\ carrierActiveConnectionSet' =
                            EraseInactive(carrierActiveConnectionSet, cid, active)
    /\ UNCHANGED << activeConnectionSet, it, inputs, passStart, abandoned >>
    /\ UNCHANGED restVars

NextReadme ==
    \/ LyapunovScheduler
    \/ LoadAgain
    \/ FrameworkUpdate
    \/ PrepareBeginReadme
    \/ GatherStepReadme
    \/ DrainStepReadme
    \/ commitSchedule

SpecReadme == Init /\ [][NextReadme]_vars

(* ========== the drain loop without a limit on the calls ================ *)
\* of an unbounded history of calls only the last one is kept
LastCalls(calls) == IF Len(calls) > 1 THEN << calls[Len(calls)] >> ELSE calls

\* the bytes counted per flow are followed up to this total
MaxGrantedBytes == MaxCalls * MaxGrant

\* the loop test, top() and requestGrant, up to grantedBytes_[cid] += granted;
\* the executor may answer anything, as often as it likes
DrainCall ==
    /\ pc = "drain"
    /\ \E current \in Front(score, requested), granted \in 0..MaxGrant,
          terminate \in BOOLEAN, active \in BOOLEAN, eligible \in BOOLEAN :
          LET cid == current.cid
              call == [cid |-> cid, s |-> current.s, p |-> current.p,
                       granted |-> granted, terminate |-> terminate,
                       active |-> active, eligible |-> eligible]
          IN  /\ Get(grantedBytes, cid) + granted <= MaxGrantedBytes
              /\ requested' = LastCalls(Append(requested, call))
              /\ grantedBytes' = Put(grantedBytes, cid, Get(grantedBytes, cid) + granted)
              /\ answer' = call
    /\ pc' = "granted"
    /\ UNCHANGED << activeConnectionSet, activeConnectionTempSet, carrierActiveConnectionSet,
                    score, it, inputs, passStart, abandoned, qfiContextMgr, contextLoaded,
                    ctxArg, weighed, firstPass, slotSeen >>

\* the rest of the loop body: the tests of terminate, active and eligible
DrainAnswer ==
    /\ pc = "granted"
    /\ LET cid == answer.cid
           current == Entry(answer.cid, answer.s, answer.p)
           q == IF PopAfterGrant(answer.active, answer.eligible)
                THEN Pop(score, current) ELSE score
       IN  IF StopDraining(answer.terminate)
           THEN /\ score' = score
                /\ pc' = "returned"
                /\ UNCHANGED << activeConnectionTempSet, carrierActiveConnectionSet >>
           ELSE /\ score' = q
                /\ pc' = IF q = EmptyBag THEN "returned" ELSE "drain"
                /\ activeConnectionTempSet' =
                      EraseInactive(activeConnectionTempSet, cid, answer.active)
                /\ carrierActiveConnectionSet' =
                      EraseInactive(carrierActiveConnectionSet, cid, answer.active)
    /\ answer' = None
    /\ UNCHANGED << activeConnectionSet, grantedBytes, it, inputs, requested, passStart,
                    abandoned, qfiContextMgr, contextLoaded, ctxArg, weighed, firstPass, slotSeen >>

NextLive ==
    \/ LyapunovScheduler
    \/ FrameworkUpdate
    \/ PrepareBegin
    \/ GatherStep
    \/ DrainCall
    \/ DrainAnswer
    \/ commitSchedule

\* prepareSchedule runs to completion within the scheduling callback: a loop
\* that can take its next step takes it
SpecLive ==
    /\ Init
    /\ [][NextLive]_vars
    /\ WF_vars(GatherStep)
    /\ WF_vars(DrainCall)
    /\ WF_vars(DrainAnswer)

(* ========== flows that differ in priority level and backlog ============ *)
\* two QoS contexts one priority level apart, equal in every other attribute
ContextsPriority ==
    { [qfi |-> q, fiveQi |-> 9, isGbr |-> FALSE, priorityLevel |-> 3 + q, delayBudgetMs |-> 300] :
        q \in 1..2 }

\* positive queue occupancies
BacklogsPriority == 1 .. (MaxBacklog + 1)

\* flows that are scored, with one rate or another
FlowInputsPriority ==
    { [resolved |-> TRUE, dirOk |-> TRUE, hasChannel |-> TRUE, cwFree |-> TRUE,
       report |-> r, backlog |-> b, qfi |-> l.qfi, ctx |-> l.ctx] :
         r \in { x \in Reports : SumBytes(x) > 0 }, b \in BacklogsPriority,
         l \in Lookups(ContextsPriority) }

GatherStepPriority == GatherStepOn(FlowInputsPriority)

NextPriority ==
    \/ LyapunovScheduler
    \/ FrameworkUpdate
    \/ PrepareBegin
    \/ GatherStepPriority
    \/ DrainStep
    \/ commitSchedule

SpecPriority == Init /\ [][NextPriority]_vars

(* ================== flows with long queues that tie ==================== *)
\* a QoS context of the greatest weight part_000 gives: 10 * 2 * 10 * 5 = 1000
ContextsTie ==
    { [qfi |-> 1, fiveQi |-> 1, isGbr |-> TRUE, priorityLevel |-> 0, delayBudgetMs |-> 5] }

\* one resource block that carries 100 bytes
ReportsTie == { << <<1, 100>> >> }

\* a queue of one byte and a queue of a megabyte
BacklogsTie == { 1, 1000000 }

FlowInputsTie ==
    { [resolved |-> TRUE, dirOk |-> TRUE, hasChannel |-> TRUE, cwFree |-> TRUE,
       report |-> r, backlog |-> b, qfi |-> l.qfi, ctx |-> l.ctx] :
         r \in ReportsTie, b \in BacklogsTie, l \in Lookups(ContextsTie) }

GatherStepTie == GatherStepOn(FlowInputsTie)

NextTie ==
    \/ LyapunovScheduler
    \/ FrameworkUpdate
    \/ PrepareBegin
    \/ GatherStepTie
    \/ DrainStep
    \/ commitSchedule

SpecTie == Init /\ [][NextTie]_vars

(* ================= a slot compared with an earlier slot ================= *)
\* flows that are scored: resolved, with channel data, no QFI registered
FlowInputsStateless ==
    { [resolved |-> TRUE, dirOk |-> TRUE, hasChannel |-> TRUE, cwFree |-> TRUE,
       report |-> << <<1, 1>> >>, backlog |-> b, qfi |-> NoQfi, ctx |-> NoCtx] :
         b \in 1..MaxBacklog }

GatherStepStateless == GatherStepOn(FlowInputsStateless)

\* the flows the pass erased from the working set and the carrier set
ErasedInPass ==
    IF abandoned THEN {}
    ELSE { c \in Cids : inputs[c] # Unread /\ Unresolvable(inputs[c]) }
         \cup { requested[i].cid :
                  i \in { k \in 1..Len(requested) :
                            ~ requested[k].active /\ ~ requested[k].terminate } }

\* the entries the pass pushed: those left in the queue and those requested
PushedInPass ==
    IF abandoned THEN {}
    ELSE { <<a.cid, a.p>> : a \in BagToSet(score) }
         \cup { <<requested[i].cid, requested[i].p>> : i \in 1..Len(requested) }

\* what the slot that has committed was given: the two active sets at its
\* start, whether there was a BSR map, what was read for each flow, the
\* perturbations drawn and the answers of the executor, call by call
SlotInputs ==
    [start   |-> passStart,
     carrier |-> carrierActiveConnectionSet \cup ErasedInPass,
     bsr     |-> ~ abandoned,
     read    |-> inputs,
     perts   |-> PushedInPass,
     answers |-> [i \in 1..Len(requested) |->
                    << requested[i].granted, requested[i].terminate,
                       requested[i].active, requested[i].eligible >>]]

\* what it did: the flows requestGrant was called for, in order, and the
\* active set it committed
SlotOutputs ==
    [calls     |-> [i \in 1..Len(requested) |-> requested[i].cid],
     committed |-> activeConnectionSet]

\* of the earlier slots one without requestGrant calls is kept for comparison
RememberSlot ==
    /\ pc = "committed"
    /\ slotSeen = None
    /\ requested = << >>
    /\ slotSeen' = [given |-> SlotInputs, done |-> SlotOutputs]
    /\ UNCHANGED << passVars, pc, qfiContextMgr, contextLoaded, ctxArg, weighed, answer,
                    firstPass >>

NextStateless ==
    \/ LyapunovScheduler
    \/ FrameworkUpdate
    \/ PrepareBegin
    \/ GatherStepStateless
    \/ DrainStep
    \/ commitSchedule
    \/ RememberSlot

SpecStateless == Init /\ [][NextStateless]_vars

(* ================= commitSchedule called a second time ================= *)
\* commitSchedule called again after commitSchedule, with no prepareSchedule
\* and no change by the framework in between
commitScheduleAgain ==
    /\ pc = "committed"
    /\ activeConnectionSet' = CommittedSet(activeConnectionSet, activeConnectionTempSet)
    /\ pc' = "recommitted"
    /\ UNCHANGED << activeConnectionTempSet, carrierActiveConnectionSet, grantedBytes,
                    score, it, inputs, requested, passStart, abandoned >>
    /\ UNCHANGED restVars

NextRecommit ==
    \/ LyapunovScheduler
    \/ LoadAgain
    \/ FrameworkUpdate
    \/ PrepareBegin
    \/ GatherStep
    \/ DrainStep
    \/ commitSchedule
    \/ commitScheduleAgain

SpecRecommit == Init /\ [][NextRecommit]_vars

(* ============== the gathering step run twice in one slot =============== *)
\* the ordering without the perturbations: how often each (flow, unperturbed
\* score) pair is in the queue
Unperturbed(q) ==
    LET S == { [cid |-> a.cid, s |-> a.s] : a \in BagToSet(q) }
    IN  [x \in S |->
           Cardinality({ <<a, k>> \in BagToSet(q) \X (1..BagCardinality(q)) :
                           a.cid = x.cid /\ a.s = x.s /\ k <= CopiesIn(a, q) })]

\* the flows the gathering loop found unresolvable and erased from the
\* carrier active set
ErasedUnresolved == { c \in Cids : inputs[c] # Unread /\ Unresolvable(inputs[c]) }

\* prepareSchedule called again when the gathering loop of an earlier call is
\* over and nothing has been requested, with the BSR map, the identities, the
\* backlogs, the channel reports and the contexts as they were (inputs is kept)
PrepareAgain ==
    /\ pc \in {"drain", "returned"}
    /\ ~ abandoned
    /\ requested = << >>
    /\ firstPass = None
    /\ firstPass' = [carrier |-> carrierActiveConnectionSet \cup ErasedUnresolved,
                     carrierAgain |-> carrierActiveConnectionSet,
                     scored |-> Unperturbed(score)]
    /\ grantedBytes' = EmptyMap
    /\ activeConnectionTempSet' = activeConnectionSet
    /\ score' = FreshQueue
    /\ it' = Begin(carrierActiveConnectionSet)
    /\ pc' = PcAfterGather(it', score')
    /\ UNCHANGED << activeConnectionSet, carrierActiveConnectionSet, inputs, requested,
                    passStart, abandoned, qfiContextMgr, contextLoaded, ctxArg, weighed,
                    answer, slotSeen >>

NextRescore ==
    \/ LyapunovScheduler
    \/ FrameworkUpdate
    \/ PrepareBegin
    \/ GatherStep
    \/ PrepareAgain

SpecRescore == Init /\ [][NextRescore]_vars

(* ==================== the weight function on its own =================== *)
PriorityLevels == 0 .. MaxPriorityLevel

\* 5QI values: the LTE-style classes 1 .. 9, and standardized values above them
FiveQis == {1, 5, 9, 10, 65, 82}

\* delay budgets (ms) on both sides of every threshold of the two versions
DelayBudgets == {5, 10, 11, 50, 51, 100, 101, 300}

\* the attributes of a QfiContext other than its priority level
OtherAttributes ==
    [qfi : {1}, fiveQi : FiveQis, isGbr : BOOLEAN, delayBudgetMs : DelayBudgets]

\* the QfiContext with these other attributes and priority level p
WithPriority(a, p) ==
    [qfi |-> a.qfi, fiveQi |-> a.fiveQi, isGbr |-> a.isGbr,
     priorityLevel |-> p, delayBudgetMs |-> a.delayBudgetMs]

Weighed(i) == weighed[i].ctx.priorityLevel

InitWeight == InitScheduler /\ ctxArg \in OtherAttributes

\* computeQosWeightFromContext of part_000 applied to a context with the
\* attributes ctxArg and a priority level not tried before
Weigh ==
    /\ ctxArg # NoCtx
    /\ Len(weighed) < MaxWeighings
    /\ \E p \in PriorityLevels :
          /\ \A i \in 1..Len(weighed) : Weighed(i) # p
          /\ weighed' = Append(weighed,
                              [ctx |-> WithPriority(ctxArg, p),
                               weight |-> computeQosWeightFromContext(WithPriority(ctxArg, p))])
    /\ UNCHANGED << passVars, pc, qfiContextMgr, contextLoaded, ctxArg, answer, firstPass, slotSeen >>

NextWeight == Weigh

SpecWeight == InitWeight /\ [][NextWeight]_vars

\* the same for computeQosWeightFromContext of the README version
WeighReadme ==
    /\ ctxArg # NoCtx
    /\ Len(weighed) < MaxWeighings
    /\ \E p \in PriorityLevels :
          /\ \A i \in 1..Len(weighed) : Weighed(i) # p
          /\ weighed' = Append(weighed,
                              [ctx |-> WithPriority(ctxArg, p),
                               weight |-> computeQosWeightFromContextReadme(WithPriority(ctxArg, p))])
    /\ UNCHANGED << passVars, pc, qfiContextMgr, contextLoaded, ctxArg, answer, firstPass, slotSeen >>

NextWeightReadme == WeighReadme

SpecWeightReadme == InitWeight /\ [][NextWeightReadme]_vars

\* the attributes of a QfiContext other than its delay budget, with 5QI
\* values for which the first factor of the weight is positive
BudgetFree == [qfi : {1}, fiveQi : {1, 9}, isGbr : BOOLEAN, priorityLevel : {0, 4, 9}]

\* the QfiContext with these other attributes and delay budget d
WithBudget(a, d) ==
    [qfi |-> a.qfi, fiveQi |-> a.fiveQi, isGbr |-> a.isGbr,
     priorityLevel |-> a.priorityLevel, delayBudgetMs |-> d]

InitBudget == InitScheduler /\ ctxArg \in BudgetFree

\* computeQosWeightFromContext of part_000 applied to a context with the
\* attributes ctxArg and a delay budget not tried before
WeighBudget ==
    /\ ctxArg # NoCtx
    /\ Len(weighed) < MaxWeighings
    /\ \E d \in DelayBudgets :
          /\ \A i \in 1..Len(weighed) : weighed[i].ctx.delayBudgetMs # d
          /\ weighed' = Append(weighed,
                              [ctx |-> WithBudget(ctxArg, d),
                               weight |-> computeQosWeightFromContext(WithBudget(ctxArg, d))])
    /\ UNCHANGED << passVars, pc, qfiContextMgr, contextLoaded, ctxArg, answer, firstPass, slotSeen >>

NextBudget == WeighBudget

SpecBudget == InitBudget /\ [][NextBudget]_vars

(* ============================== claims ================================= *)
\* a = b for score values
ValEq(a, b) == ~ ValLess(a, b) /\ ~ ValLess(b, a)

Requested(c) == \E i \in 1..Len(requested) : requested[i].cid = c
InOrdering(c) == \E a \in BagToSet(score) : a.cid = c
WasRead(c) == inputs[c] # Unread
\* the flow got as far as the score computation of the gathering loop
Scored(c) == WasRead(c) /\ ~ Unresolvable(inputs[c]) /\ ~ TransientSkip(inputs[c])
Terminated == requested # << >> /\ requested[Len(requested)].terminate
AnsweredInactive(c) ==
    \E i \in 1..Len(requested) :
        requested[i].cid = c /\ ~ requested[i].active /\ ~ requested[i].terminate

\* the bytes requestGrant returned for flow c in the first k calls of the pass
RECURSIVE GrantedSum(_, _)
GrantedSum(c, k) ==
    IF k = 0 THEN 0
    ELSE GrantedSum(c, k - 1) + (IF requested[k].cid = c THEN requested[k].granted ELSE 0)

\* b - a > 2 * scoreEpsilon_
ApartBy2Eps(a, b) == PertLess(a, 2 * PertSteps, b, 0)

\* C1: after commitSchedule the authoritative active set is a subset of the
\* authoritative active set as it was when the prepareSchedule of that pass began.
C1_CommittedSubsetOfPassStart ==
    pc = "committed" => activeConnectionSet \subseteq passStart

\* C2: a flow whose queue backlog was read as 0 is not inserted into the score
\* ordering and requestGrant is never invoked for it in that pass.
C2_ZeroBacklogExcluded ==
    \A c \in Cids :
        (Scored(c) /\ inputs[c].backlog = 0) => (~ InOrdering(c) /\ ~ Requested(c))

\* C3: a flow whose achievable rate is 0 (no available resource units, or no
\* deliverable bytes) is not inserted into the score ordering and requestGrant is
\* never invoked for it in that pass.
C3_ZeroRateExcluded ==
    \A c \in Cids :
        (Scored(c) /\ (SumBlocks(inputs[c].report) = 0 \/ SumBytes(inputs[c].report) = 0))
            => (~ InOrdering(c) /\ ~ Requested(c))

\* C4: the requestGrant calls of a pass come in non-increasing order of the
\* perturbed scores, no flow still waiting in the ordering has a greater
\* perturbed score than a flow already requested, every perturbation is within
\* [-scoreEpsilon_, +scoreEpsilon_], and a flow whose unperturbed score is more
\* than 2 * scoreEpsilon_ above that of another flow is never requested after it.
C4_GrantOrderFollowsScores ==
    /\ \A i \in 1..Len(requested) : \A j \in 1..Len(requested) :
          i < j => /\ ~ compare(requested[i], requested[j])
                   /\ ~ ApartBy2Eps(requested[i].s, requested[j].s)
    /\ \A i \in 1..Len(requested) : \A y \in BagToSet(score) :
          /\ ~ compare(requested[i], y)
          /\ ~ ApartBy2Eps(requested[i].s, y.s)
    /\ \A y \in BagToSet(score) : 0 - PertSteps <= y.p /\ y.p <= PertSteps

\* two different flows were requested, the second with a smaller unperturbed score
C4_Witness ==
    /\ Len(requested) >= 2
    /\ requested[1].cid # requested[2].cid
    /\ ApartBy2Eps(requested[2].s, requested[1].s)

\* C5: in the README version, a flow of the strict-priority class (QFI 4) that
\* was inserted with a positive score is requested before every flow of another
\* class inserted with a positive score in the same pass.
C5_StrictPriorityFirst ==
    \A i \in 1..Len(requested) : \A j \in 1..Len(requested) :
        (/\ i < j
         /\ IsPositive(requested[i].s)
         /\ IsPositive(requested[j].s)
         /\ IsStrictPriority(inputs[requested[j].cid].ctx))
            => IsStrictPriority(inputs[requested[i].cid].ctx)

\* C6: a requestGrant call that returns terminate = true is the last call of the
\* pass: prepareSchedule has returned, and every grantedBytes_ entry holds what
\* the flow was granted up to and including that call, nothing more.
C6_TerminateStopsDrain ==
    \A i \in 1..Len(requested) :
        requested[i].terminate =>
            /\ i = Len(requested)
            /\ pc \in {"returned", "committed"}
            /\ \A c \in Cids : Get(grantedBytes, c) = GrantedSum(c, i)

\* the executor ended the slot while another flow was still in the ordering
C6_Witness ==
    /\ Terminated
    /\ \E y \in BagToSet(score) : y.cid # requested[Len(requested)].cid
    /\ pc = "committed"

\* C7: from the start of prepareSchedule until commitSchedule the authoritative
\* active set keeps the value it had at pass start.
C7_AuthoritativeSetFrozen ==
    pc \in {"gather", "drain", "returned"} => activeConnectionSet = passStart

\* C8: when prepareSchedule returned before the gathering step (no BSR virtual
\* buffer map), the following commitSchedule leaves the authoritative active set
\* equal to its value at the start of that pass.
C8_AbandonedPassKeepsSet ==
    (pc = "committed" /\ abandoned) => activeConnectionSet = passStart

C10_OnlyUnresolvedOrInactiveLeave ==
    pc = "committed" =>
        /\ \A c \in Cids :
              (WasRead(c) /\ ~ Unresolvable(inputs[c]) /\ ~ Requested(c))
                  => (c \in activeConnectionSet <=> c \in passStart)
        /\ \A c \in passStart \ activeConnectionSet :
              (WasRead(c) /\ Unresolvable(inputs[c])) \/ AnsweredInactive(c)

\* the estimator was asked about the flow and reported no channel data or
\* no available resource unit
ZeroUnits(inp) ==
    /\ ~ Unresolvable(inp)
    /\ inp.dirOk
    /\ (~ inp.hasChannel \/ (inp.cwFree /\ SumBlocks(inp.report) = 0))

\* the gathering loop ran and is over, and every flow it visited had zero units
AllZeroUnits ==
    /\ pc \in {"drain", "returned", "committed"}
    /\ ~ abandoned
    /\ \A c \in carrierActiveConnectionSet : WasRead(c)
    /\ \A c \in Cids : WasRead(c) => ZeroUnits(inputs[c])

\* C11: when the estimator reports zero available resource units (or no
\* channel data) for every flow of the carrier active set, the ordering is empty
\* when the drain starts, requestGrant is never invoked in the pass, and the
\* active set after commit equals the active set at pass start.
C11_NoUnitsNoGrants ==
    AllZeroUnits =>
        /\ score = EmptyBag
        /\ requested = << >>
        /\ (pc = "committed" => activeConnectionSet = passStart)

\* C12: computeQosWeightFromContext returns a strictly positive weight for
\* every QoS context: every priority level, delay budget, GBR flag and 5QI.
C12_WeightPositive ==
    \A i \in 1..Len(weighed) : IsPositive(weighed[i].weight)

\* C13: with every other QoS attribute held fixed, the weight is strictly
\* decreasing in priorityLevel: for levels p < q, weight(p) > weight(q).
C13_WeightDecreasingInPriority ==
    \A i \in 1..Len(weighed) : \A j \in 1..Len(weighed) :
        Weighed(i) < Weighed(j) => ValLess(weighed[j].weight, weighed[i].weight)

\* C14: in the README version, for every priority level p in 1..9 the weight is
\* 2^(9-p) * D * G with D = 10 for delayBudgetMs <= 10, 3 for 10 < delayBudgetMs
\* <= 50, else 1, and G = 2 for a GBR flow, else 1; the context
\* {priorityLevel 1, delayBudgetMs 5, GBR} weighs 5120.
C14_ReadmeWeightFormula ==
    \A i \in 1..Len(weighed) :
        LET c == weighed[i].ctx
            D == IF c.delayBudgetMs <= 10 THEN 10
                 ELSE IF 10 < c.delayBudgetMs /\ c.delayBudgetMs <= 50 THEN 3 ELSE 1
            G == IF c.isGbr THEN 2 ELSE 1
        IN  /\ c.priorityLevel \in 1..9 =>
                  ValEq(weighed[i].weight, Val(Pow2(9 - c.priorityLevel) * D * G, 1, 0))
            /\ (c.priorityLevel = 1 /\ c.delayBudgetMs = 5 /\ c.isGbr) =>
                  ValEq(weighed[i].weight, Val(5120, 1, 0))

\* the weight of {priorityLevel 1, delayBudgetMs 5, GBR} was computed, and that
\* of a non-GBR context of level 9
C14_Witness ==
    /\ \E i \in 1..Len(weighed) :
          LET c == weighed[i].ctx
          IN  c.priorityLevel = 1 /\ c.delayBudgetMs = 5 /\ c.isGbr
    /\ \E i \in 1..Len(weighed) : weighed[i].ctx.priorityLevel = 9

\* the entries pushed for flow c in the pass: those still in the ordering and
\* those requestGrant was called with
PushedScores(c) ==
    { a.s : a \in { x \in BagToSet(score) : x.cid = c } }
    \cup { requested[i].s : i \in { k \in 1..Len(requested) : requested[k].cid = c } }

\* no QoS context was found for the scored flow c
NoContextFound(c) == Scored(c) /\ getQfiContextForCid(inputs[c]) = NoCtx

\* C15: a flow for which no QoS context is found (no QFI registered for its
\* CID, or no context stored for that QFI) is scored with weight 1.0: it is
\* inserted into the ordering with the unperturbed score backlog * rate, and the
\* pass goes on.
C15_NoContextNeutralWeight ==
    \A c \in Cids :
        NoContextFound(c) =>
            /\ pc \in {"gather", "drain", "returned", "committed"}
            /\ PushedScores(c) # {}
            /\ \A v \in PushedScores(c) :
                  ValEq(v, ValMul(Val(inputs[c].backlog, 1, 0), AchievableRate(inputs[c].report)))

\* a pass committed in which a flow without a registered QFI and a flow whose
\* QFI has no stored context were both requested with a positive score
C15_Witness ==
    /\ pc = "committed"
    /\ qfiContextMgr = Instance
    /\ \E c \in Cids : \E d \in Cids :
          /\ NoContextFound(c) /\ inputs[c].qfi = NoQfi
          /\ NoContextFound(d) /\ inputs[d].qfi # NoQfi
          /\ Requested(c) /\ Requested(d)
          /\ \A v \in PushedScores(c) \cup PushedScores(d) : IsPositive(v)

\* the constructor has returned normally
Constructed == pc \notin {"new", "aborted"}

\* C17: construction with the directory singleton missing aborts; after a
\* construction that succeeds qfiContextMgr_ is non-null and contextLoaded_ is
\* true in every state, and loadContextIfNeeded does not fetch the singleton
\* again (qfiContextMgr_ keeps its value).
C17_DirectoryLoadedOnce ==
    /\ [](Constructed => (qfiContextMgr # Null /\ contextLoaded))
    /\ [][Constructed => qfiContextMgr' = qfiContextMgr]_vars

\* the second gathering step of the slot is over, and it began with the
\* carrier active set the first one began with
ScoredTwice ==
    /\ firstPass # None
    /\ pc \in {"drain", "returned"}
    /\ firstPass.carrier = firstPass.carrierAgain

\* C16: the gathering-and-scoring step run twice in one slot on the same
\* carrier active set, identities, backlogs, channel reports and QoS contexts
\* yields, perturbations left out, the same ordering: the same flows with the
\* same unperturbed scores (hence in the same relative order), each as often.
C16_ScoringIdempotent ==
    ScoredTwice => Unperturbed(score) = firstPass.scored

\* two flows with different positive scores were scored twice
C16_Witness ==
    /\ ScoredTwice
    /\ \E a \in BagToSet(score) : \E b \in BagToSet(score) :
          a.cid # b.cid /\ IsPositive(a.s) /\ ValLess(a.s, b.s)

\* prepareSchedule is running
InPrepare == pc \in {"gather", "drain", "granted"}

\* C18: every prepareSchedule call terminates, whatever the executor answers:
\* the drain loop makes finitely many requestGrant calls and ends with the
\* ordering empty or on a terminate signal.
C18_PrepareTerminates ==
    /\ InPrepare ~> (pc = "returned")
    /\ []((pc = "returned" /\ ~ abandoned) => (score = EmptyBag \/ Terminated))

\* call i of the pass was answered inactive, without terminate
InactiveAnswer(i) == ~ requested[i].active /\ ~ requested[i].terminate

\* call i was answered not eligible but active, without terminate
IneligibleAnswer(i) ==
    ~ requested[i].eligible /\ requested[i].active /\ ~ requested[i].terminate

\* no call after call i is for the same flow
NotRequestedAfter(i) ==
    \A j \in 1..Len(requested) : j > i => requested[j].cid # requested[i].cid

\* C19: a flow for which requestGrant returned active = false (terminate =
\* false) is removed from the working set and from the carrier active set, is
\* not passed to requestGrant again in the pass, and is absent from the
\* authoritative active set after commitSchedule.
C19_InactiveFlowRemoved ==
    \A i \in 1..Len(requested) :
        InactiveAnswer(i) =>
            /\ requested[i].cid \notin activeConnectionTempSet
            /\ requested[i].cid \notin carrierActiveConnectionSet
            /\ NotRequestedAfter(i)
            /\ (pc = "committed" => requested[i].cid \notin activeConnectionSet)

\* a pass committed in which the first flow requested was answered inactive
\* and another flow was requested after it
C19_Witness ==
    /\ pc = "committed"
    /\ Len(requested) = 2
    /\ InactiveAnswer(1)
    /\ requested[1].cid \in passStart
    /\ requested[2].cid # requested[1].cid

\* C20: a flow for which requestGrant returned eligible = false with active =
\* true (terminate = false) is taken out of the ordering and not passed to
\* requestGrant again in the pass; it stays in the working set and is in the
\* authoritative active set after commitSchedule.
C20_IneligibleFlowKept ==
    \A i \in 1..Len(requested) :
        IneligibleAnswer(i) =>
            /\ ~ InOrdering(requested[i].cid)
            /\ NotRequestedAfter(i)
            /\ requested[i].cid \in activeConnectionTempSet
            /\ (pc = "committed" => requested[i].cid \in activeConnectionSet)

\* a pass committed in which the first flow requested was answered not
\* eligible and another flow was requested after it
C20_Witness ==
    /\ pc = "committed"
    /\ Len(requested) = 2
    /\ IneligibleAnswer(1)
    /\ requested[2].cid # requested[1].cid

\* the flows the pass removed from the working set: those with no resolvable
\* identity and those the executor answered inactive
RemovedFromWorking == ErasedUnresolved \cup { c \in Cids : AnsweredInactive(c) }

\* C21: after commitSchedule the authoritative active set equals the working
\* set exactly (replace, not merge): every flow removed from the working set
\* during the pass is absent from the authoritative set, and a second
\* commitSchedule without a new prepareSchedule changes nothing.
C21_CommitReplaces ==
    /\ [](pc \in {"committed", "recommitted"} =>
             /\ activeConnectionSet = activeConnectionTempSet
             /\ \A c \in RemovedFromWorking : c \notin activeConnectionSet)
    /\ [][(pc = "committed" /\ pc' = "recommitted") =>
             /\ activeConnectionSet' = activeConnectionSet
             /\ activeConnectionTempSet' = activeConnectionTempSet]_vars

\* commitSchedule was called twice after a pass in which the executor answered
\* an active flow inactive, while another flow stayed active
C21_Witness ==
    /\ pc = "recommitted"
    /\ \E c \in passStart : AnsweredInactive(c)
    /\ activeConnectionSet # {}

\* backlog^alpha * rate * weight^beta with alpha = beta = 1, rate = total
\* bytes / total units, 0 when there are no units
ExpectedScore(inp) ==
    LET units == SumBlocks(inp.report)
        bytes == SumBytes(inp.report)
        rate  == IF units = 0 THEN Zero ELSE Val(bytes, units, 0)
        w     == QosWeight(getQfiContextForCid(inp))
    IN  ValMul(ValMul(ValPow(Val(inp.backlog, 1, 0), 1), rate), ValPow(w, 1))

HigherPriorityPeer(c, d) ==
    /\ Scored(c) /\ Scored(d)
    /\ getQfiContextForCid(inputs[c]) # NoCtx
    /\ getQfiContextForCid(inputs[d]) # NoCtx
    /\ inputs[c].backlog > 0 /\ inputs[d].backlog > 0
    /\ IsPositive(AchievableRate(inputs[c].report))
    /\ ValEq(AchievableRate(inputs[c].report), AchievableRate(inputs[d].report))
    /\ inputs[c].ctx.delayBudgetMs = inputs[d].ctx.delayBudgetMs
    /\ inputs[c].ctx.isGbr = inputs[d].ctx.isGbr
    /\ inputs[c].ctx.priorityLevel < inputs[d].ctx.priorityLevel

\* C23: of two flows with the same achievable rate, delay budget and GBR flag,
\* the one with the higher QoS priority (the lower priorityLevel, even by a
\* single step) is ordered before the other, however much larger the other
\* flow's backlog is: the other is not requested unless it was requested first.
C23_PriorityDominatesBacklog ==
    \A c \in Cids : \A d \in Cids :
        HigherPriorityPeer(c, d) =>
            \A i \in 1..Len(requested) :
                requested[i].cid = d => \E j \in 1..(i - 1) : requested[j].cid = c

Tight(d) == d <= 10
Moderate(d) == 10 < d /\ d <= 50
Loose(d) == 50 < d

\* C24: with the other attributes held fixed the weight has exactly three
\* delay-budget levels: budgets <= 10 ms get the largest multiplier, budgets in
\* (10, 50] ms a strictly smaller one that is greater than 1, and every budget
\* above 50 ms gets multiplier 1, so the weight is the same for all of those.
C24_ThreeDelayLevels ==
    \A i \in 1..Len(weighed) : \A j \in 1..Len(weighed) :
        LET di == weighed[i].ctx.delayBudgetMs
            dj == weighed[j].ctx.delayBudgetMs
            wi == weighed[i].weight
            wj == weighed[j].weight
        IN  /\ (Tight(di) /\ Tight(dj)) => ValEq(wi, wj)
            /\ (Moderate(di) /\ Moderate(dj)) => ValEq(wi, wj)
            /\ (Loose(di) /\ Loose(dj)) => ValEq(wi, wj)
            /\ (Tight(di) /\ Moderate(dj)) => ValLess(wj, wi)
            /\ (Moderate(di) /\ Loose(dj)) => ValLess(wj, wi)

\* backlog^alpha * rate * weight^beta of the README version, before the bonus
\* of the strict-priority class
UnderlyingScore(inp) ==
    ValMul(ValMul(ValPow(Val(inp.backlog, 1, 0), Alpha), AchievableRate(inp.report)),
           ValPow(QosWeightReadme(getQfiContextForCid(inp)), Beta))

\* the flow was inserted in this pass as a flow of the strict-priority class
StrictFlow(c) ==
    WasRead(c) /\ ~ SkipReadme(inputs[c]) /\ IsStrictPriority(getQfiContextForCid(inputs[c]))

TiedCalls(i, j) ==
    /\ requested[i].cid # requested[j].cid
    /\ ValEq(requested[i].s, requested[j].s)

\* C26: for two flows with exactly equal unperturbed scores in the same pass
\* the grant order is decided by the random perturbation, not by insertion
\* order or flow identifier: the flow requested first is not the one that drew
\* the smaller perturbation.
C26_TiesBrokenByPerturbation ==
    \A i \in 1..Len(requested) : \A j \in 1..Len(requested) :
        (i < j /\ TiedCalls(i, j)) => requested[i].p >= requested[j].p

\* a pass that got as far as the gathering step is running or has returned
PassRan == pc \in {"gather", "drain", "returned", "committed"} /\ ~ abandoned

\* C27: grantedBytes_ is emptied at the start of every pass that reaches the
\* gathering step, and in such a pass grantedBytes_[f] is the sum of the byte
\* counts requestGrant returned for f in that pass, also when prepareSchedule
\* has returned: nothing granted in an earlier slot is carried over, and a flow
\* never passed to requestGrant has value 0 or no entry.
C27_GrantedBytesPerPass ==
    /\ [](PassRan =>
             \A c \in Cids :
                 /\ Get(grantedBytes, c) = GrantedSum(c, Len(requested))
                 /\ ~ Requested(c) => Get(grantedBytes, c) = 0)
    /\ [][(pc = "idle" /\ pc' # "idle" /\ ~ abandoned') => grantedBytes' = EmptyMap]_vars

\* prepareSchedule has returned after two calls for one flow that granted bytes
\* both times, with another flow gathered and never requested
C27_Witness ==
    /\ pc = "returned"
    /\ Len(requested) = 2
    /\ requested[1].cid = requested[2].cid
    /\ Get(grantedBytes, requested[1].cid) = 2 * MaxGrant
    /\ \E c \in DOMAIN grantedBytes : ~ Requested(c)

\* C28: the scheduler is stateless across slots: a slot that is given the
\* same authoritative and carrier active sets, identities, backlogs, channel
\* reports, QoS contexts, perturbation values and executor answers as an
\* earlier slot makes the same sequence of requestGrant calls and commits the
\* same active set, whatever happened in the slots before each of them.
C28_StatelessAcrossSlots ==
    (pc = "committed" /\ slotSeen # None /\ SlotInputs = slotSeen.given)
        => SlotOutputs = slotSeen.done

\* the gathering loop of the README version inserted flow c
InsertedReadme(c) == WasRead(c) /\ ~ SkipReadme(inputs[c])

\* C29: in the README version requestGrant is invoked at most once per flow
\* per pass: every iteration of the drain loop pops the flow it serves,
\* whatever the executor answers, so the number of calls in a pass never
\* exceeds the number of scored flows.
C29_OneCallPerFlow ==
    /\ \A i \in 1..Len(requested) : \A j \in 1..Len(requested) :
          i # j => requested[i].cid # requested[j].cid
    /\ \A i \in 1..Len(requested) : ~ InOrdering(requested[i].cid)
    /\ Len(requested) <= Cardinality({ c \in Cids : InsertedReadme(c) })

\* a pass committed in which the executor answered the first flow active,
\* eligible and not terminate, and the next call was for another flow
C29_Witness ==
    /\ pc = "committed"
    /\ Len(requested) = 2
    /\ requested[1].active /\ requested[1].eligible /\ ~ requested[1].terminate
    /\ requested[1].granted > 0

\* call i was answered active, eligible and not terminate
KeepAnswer(i) == requested[i].active /\ requested[i].eligible /\ ~ requested[i].terminate

\* call i was answered inactive or ineligible, and not terminate
PopAnswer(i) == (~ requested[i].active \/ ~ requested[i].eligible) /\ ~ requested[i].terminate

\* calls i and j are for the same entry of the ordering
SameEntry(i, j) ==
    /\ requested[i].cid = requested[j].cid
    /\ requested[i].s = requested[j].s
    /\ requested[i].p = requested[j].p

\* C30: in the part_000 version the flow at the top of the ordering is passed
\* to requestGrant again for as long as the executor answers active, eligible
\* and not terminate (the loop goes on and its next call is for the same
\* flow), and a flow is passed to requestGrant only after every flow with a
\* higher perturbed score has been answered inactive or ineligible.
C30_TopServedUntilPopped ==
    /\ \A i \in 1..Len(requested) :
          KeepAnswer(i) =>
              /\ pc = "drain" \/ i < Len(requested)
              /\ i < Len(requested) => SameEntry(i, i + 1)
    /\ \A j \in 1..Len(requested) :
          /\ \A y \in BagToSet(score) : ~ compare(requested[j], y)
          /\ \A i \in 1..(j - 1) :
                compare(requested[j], requested[i]) =>
                    \E k \in i..(j - 1) : SameEntry(k, i) /\ PopAnswer(k)

\* a flow was requested twice in a row because the first call was answered
\* active and eligible, while a flow with a lower score waited in the ordering
C30_Witness ==
    /\ Len(requested) = 2
    /\ KeepAnswer(1)
    /\ requested[2].cid = requested[1].cid
    /\ \E y \in BagToSet(score) :
          y.cid # requested[1].cid /\ compare(y, requested[1])

\* call i of the pass was answered terminate together with inactive
TerminateInactive(calls, i) == calls[i].terminate /\ ~ calls[i].active

\* C31: when requestGrant returns terminate = true together with active =
\* false, the drain loop stops before the removal step: the call leaves the
\* working set and the carrier active set as they were, the flow is in neither
\* set removed, and it is still in the authoritative active set after
\* commitSchedule.
C31_TerminateBeforeRemoval ==
    /\ [][(Len(requested') = Len(requested) + 1 /\ TerminateInactive(requested', Len(requested')))
             => /\ activeConnectionTempSet' = activeConnectionTempSet
                /\ carrierActiveConnectionSet' = carrierActiveConnectionSet]_vars
    /\ [](\A i \in 1..Len(requested) :
             TerminateInactive(requested, i) =>
                 /\ requested[i].cid \in activeConnectionTempSet
                 /\ requested[i].cid \in carrierActiveConnectionSet
                 /\ (pc = "committed" => requested[i].cid \in activeConnectionSet))

\* how many entries of flow c the ordering holds; the ordering is a local of
\* prepareSchedule, and the pass that built it is the one that got past the
\* test of the BSR map
EntriesOf(c) ==
    BagCardinality([a \in { x \in BagToSet(score) : x.cid = c } |-> CopiesIn(a, score)])

\* the gathering loop of the pass is over and the drain loop has not called yet
GatherOver == pc \in {"drain", "returned"} /\ ~ abandoned /\ requested = << >>

\* C32: each flow of the carrier active set at pass start is evaluated exactly
\* once by the gathering loop (an iteration is never for a flow already
\* evaluated in the pass, and when the loop is over every flow left in the
\* carrier set has been evaluated, the erased ones having been evaluated when
\* they were erased) and appears at most once in the ordering, also when
\* unresolved flows are erased from the carrier active set during the loop.
C32_EachFlowGatheredOnce ==
    /\ [][pc = "gather" => ~ WasRead(it)]_vars
    /\ [](GatherOver => \A c \in carrierActiveConnectionSet : WasRead(c))
    /\ []((pc \in {"gather", "drain", "returned"} /\ ~ abandoned) =>
             \A c \in Cids : EntriesOf(c) <= 1)

\* the carrier active set as it was when the pass began: what is left of it
\* and the flows the pass erased from it
CarrierAtPassStart == carrierActiveConnectionSet \cup RemovedFromWorking

\* C33: if the carrier active set is a subset of the authoritative active set
\* when a pass begins, it is a subset of the authoritative active set after
\* commitSchedule, whatever the pass read and the executor answered: no flow the
\* pass removed from the working set is left in the carrier active set.
C33_CarrierWithinCommitted ==
    (pc = "committed" /\ CarrierAtPassStart \subseteq passStart) =>
        /\ carrierActiveConnectionSet \subseteq activeConnectionSet
        /\ RemovedFromWorking \cap carrierActiveConnectionSet = {}

TypeOK ==
    /\ activeConnectionSet \subseteq Cids
    /\ activeConnectionTempSet \subseteq Cids
    /\ carrierActiveConnectionSet \subseteq Cids
    /\ pc \in {"new", "aborted", "idle", "gather", "drain", "granted", "returned",
              "committed", "recommitted"}
    /\ qfiContextMgr \in {Null, Instance}
    /\ contextLoaded \in BOOLEAN
    /\ it \in Cids \cup {End}
    /\ slotSeen = None \/ slotSeen.given.start \subseteq Cids

====
